---- MODULE Spec2Model ----
(***************************************************************************)
(* Identity resolution and session establishment of smartpletude.info:     *)
(* the /login, /register and /logout handlers of app.py, the LDAP helpers  *)
(* they call, the User table and the per-browser Flask session.            *)
(*                                                                         *)
(* Strings are sequences of tokens (an e-mail address is                   *)
(* <<"prof", "@", "ecole", "fr">>), so that lower(), strip(), endswith()   *)
(* and split() are computed as the code computes them.                     *)
(*                                                                         *)
(* A handler is cut only where it touches the database a second time:      *)
(* login between the SELECT of line 405 and the INSERT of line 428-429,    *)
(* register between the SELECT of line 351 and the INSERT of line 368-369. *)
(* Two browsers (Clients) run handlers concurrently.                       *)
(***************************************************************************)
EXTENDS Integers, Sequences, FiniteSets, TLC

VARIABLES users, nextId, session, pc, pend, resp

vars == <<users, nextId, session, pc, pend, resp>>

(***************************************************************************)
(* Bounds                                                                  *)
(***************************************************************************)
\* largest number of rows the User table may hold
MaxUsers == 2

\* the browsers, each with its own session cookie
Clients == {"c1", "c2"}

\* the id from which on the console deletes no more rows
MaxId == 3

(***************************************************************************)
(* Token strings                                                           *)
(***************************************************************************)
None == <<"None">>

\* str.lower() on one token
LowerTok(t) ==
    CASE t = "Admin" -> "admin"
      [] t = "Eleve" -> "eleve"
      [] t = "Oui"   -> "oui"
      [] OTHER       -> t

\* str.lower()
Lower(s) == [i \in 1..Len(s) |-> LowerTok(s[i])]

RECURSIVE LStrip(_)
LStrip(s) == IF s # <<>> /\ Head(s) = " " THEN LStrip(Tail(s)) ELSE s

RECURSIVE RStrip(_)
RStrip(s) ==
    IF s # <<>> /\ s[Len(s)] = " " THEN RStrip(SubSeq(s, 1, Len(s) - 1)) ELSE s

\* str.strip()
Strip(s) == RStrip(LStrip(s))

\* bleach.clean() on one token: markup characters become entities
CleanTok(t) ==
    CASE t = "&" -> "&amp;"
      [] t = "<" -> "&lt;"
      [] t = ">" -> "&gt;"
      [] OTHER   -> t

\* bleach.clean()
Clean(s) == [i \in 1..Len(s) |-> CleanTok(s[i])]

\* bleach.clean(form.email.data.lower().strip())
NormalizeEmail(raw) == Clean(Strip(Lower(raw)))

\* str.endswith()
EndsWith(s, suffix) ==
    /\ Len(suffix) <= Len(s)
    /\ SubSeq(s, Len(s) - Len(suffix) + 1, Len(s)) = suffix

\* the Email() validator of LoginForm and RegistrationForm: one "@" with a
\* non-empty local part and domain, and no white space
ValidEmail(raw) ==
    /\ Cardinality({i \in 1..Len(raw) : raw[i] = "@"}) = 1
    /\ \A i \in 1..Len(raw) : raw[i] # " "
    /\ raw[1] # "@"
    /\ raw[Len(raw)] # "@"

(***************************************************************************)
(* Inputs                                                                  *)
(***************************************************************************)
AdminMail == <<"admin", "@", "smartpletude", "info">>
ProfMail  == <<"prof", "@", "sub", "smartpletude", "info">>
EleveMail == <<"eleve", "@", "ecole", "fr">>

\* what a browser may type in the email field: the administrator types a
\* capital, the last address has a leading blank
RawEmails ==
    { <<"Admin", "@", "smartpletude", "info">>, ProfMail, EleveMail,
      <<" ", "eleve", "@", "ecole", "fr">> }

\* what a browser may type in a password field
Passwords == {"pw1", "pw2"}

\* secrets.token_urlsafe(16): a value no browser submits
RandomToken == "token_urlsafe"

(***************************************************************************)
(* The LDAP directory                                                      *)
(***************************************************************************)
\* the entries of the directory: bind DN, bind password and the attributes
\* givenName, sn and cn (None when the entry has no such attribute)
Directory ==
    (AdminMail :> [dn |-> <<"CN=admin">>, password |-> "pw1",
                   givenName |-> <<"Marie">>, sn |-> <<"Dupont">>,
                   cn |-> <<"Marie", " ", "Dupont">>])
    @@ (ProfMail :> [dn |-> <<"CN=prof">>, password |-> "pw1",
                     givenName |-> None, sn |-> None,
                     cn |-> <<"Jean", " ", "Martin">>])

\* the entry a DN names
EntryOf(user_dn) ==
    CHOOSE e \in {Directory[m] : m \in DOMAIN Directory} : e.dn = user_dn

\* ldap_find_user_dn with a filter that matches every entry: the first entry
\* of the directory answers for an address the directory does not hold
ldap_find_user_dn_AnyEntry(email, fault) ==
    IF fault THEN None
    ELSE IF email \in DOMAIN Directory THEN Directory[email].dn
    ELSE Directory[AdminMail].dn

\* ldap_find_user_dn: the DN of the first entry, None when the search finds
\* no entry and None again when the connection or the search raises
ldap_find_user_dn(email, fault) ==
    IF fault THEN None
    ELSE IF email \in DOMAIN Directory THEN Directory[email].dn
    ELSE None

\* ldap_authenticate: conn.bound after a successful bind, False when the
\* bind is refused and False again when the connection raises
ldap_authenticate(user_dn, password, fault) ==
    IF fault THEN FALSE
    ELSE EntryOf(user_dn).password = password

\* Python truthiness of an optional string
Truthy(v) == v # None /\ v # <<>>

\* a or b
Or(a, b) == IF Truthy(a) THEN a ELSE b

RECURSIVE FirstSpace(_, _)
\* index of the first " " of s at or after i, 0 when there is none
FirstSpace(s, i) ==
    IF i > Len(s) THEN 0
    ELSE IF s[i] = " " THEN i
    ELSE FirstSpace(s, i + 1)

\* str.split(' ', 1)
SplitOnce(s) ==
    LET k == FirstSpace(s, 1) IN
    IF k = 0 THEN <<s>>
    ELSE <<SubSeq(s, 1, k - 1), SubSeq(s, k + 1, Len(s))>>

NomInconnu    == <<"NomInconnu">>
PrenomInconnu == <<"PrenomInconnu">>

\* the attributes of a search that returned no entry
NoEntry == [givenName |-> None, sn |-> None, cn |-> None]

\* NamesOfEntry without the two final fallbacks of lines 228-230
NamesOfEntry_NoPlaceholder(entry) ==
    LET nom0    == IF Truthy(entry.sn) THEN entry.sn ELSE None
        prenom0 == IF Truthy(entry.givenName) THEN entry.givenName ELSE None
        cn      == entry.cn
        parts   == SplitOnce(Strip(cn))
        useCn   == (~Truthy(nom0) \/ ~Truthy(prenom0)) /\ Truthy(cn)
    IN  [nom    |-> IF ~useCn THEN nom0
                    ELSE IF Len(parts) = 2 THEN Or(nom0, parts[2])
                    ELSE Or(nom0, NomInconnu),
         prenom |-> IF useCn THEN Or(prenom0, parts[1]) ELSE prenom0]

\* the name pair ldap_get_user_info builds from one entry
NamesOfEntry(entry) ==
    LET nom0    == IF Truthy(entry.sn) THEN entry.sn ELSE None
        prenom0 == IF Truthy(entry.givenName) THEN entry.givenName ELSE None
        cn      == entry.cn
        parts   == SplitOnce(Strip(cn))
        useCn   == (~Truthy(nom0) \/ ~Truthy(prenom0)) /\ Truthy(cn)
        prenom1 == IF useCn THEN Or(prenom0, parts[1]) ELSE prenom0
        nom1    == IF ~useCn THEN nom0
                   ELSE IF Len(parts) = 2 THEN Or(nom0, parts[2])
                   ELSE Or(nom0, NomInconnu)
    IN  [nom |-> Or(nom1, NomInconnu), prenom |-> Or(prenom1, PrenomInconnu)]

\* ldap_get_user_info without its except branch and its else branch: when
\* the search fails or finds nothing the caller gets no names
ldap_get_user_info_NoFallback(user_dn, outcome) ==
    IF outcome = "entry" THEN NamesOfEntry(EntryOf(user_dn))
    ELSE [nom |-> None, prenom |-> None]

\* ldap_get_user_info: outcome is "entry" when the search returns the entry,
\* "empty" when it returns none and "error" when the connection raises
ldap_get_user_info(user_dn, outcome) ==
    IF outcome = "entry" THEN NamesOfEntry(EntryOf(user_dn))
    ELSE [nom |-> NomInconnu, prenom |-> PrenomInconnu]

InfoOutcomes == {"entry", "empty", "error"}

(***************************************************************************)
(* The User table and bcrypt                                               *)
(***************************************************************************)
\* bcrypt.generate_password_hash
generate_password_hash(password) == <<"bcrypt", password>>

\* bcrypt.check_password_hash
check_password_hash(hash, password) == hash = <<"bcrypt", password>>

\* the result of .first() on an empty result set
NoRow == [id |-> 0]

\* the indices of the rows whose email column is email
RowsWith(email) == {i \in 1..Len(users) : users[i].email = email}

\* User.query.filter_by(email=email).first()
FindByEmail(email) ==
    IF RowsWith(email) = {} THEN NoRow
    ELSE users[CHOOSE i \in RowsWith(email) : \A j \in RowsWith(email) : i <= j]

\* User.query.get(id)
GetById(id) ==
    IF \E i \in 1..Len(users) : users[i].id = id
    THEN users[CHOOSE i \in 1..Len(users) : users[i].id = id]
    ELSE NoRow

\* a column without unique=True: the table takes any row
UniqueViolation_None(email) == FALSE

\* the unique=True constraint on User.email: what makes commit() raise
\* IntegrityError for a new row with this email
UniqueViolation(email) == RowsWith(email) # {}

\* the row a User(...) object becomes on INSERT
NewRow(email, nom, prenom, user_type, password_hash) ==
    [id |-> nextId, email |-> email, password_hash |-> password_hash,
     nom |-> nom, prenom |-> prenom, user_type |-> user_type]

(***************************************************************************)
(* Sessions and responses                                                  *)
(***************************************************************************)
\* the session of a browser without cookie, and session.clear()
EmptySession == [k \in {} |-> 0]

\* is_logged_in
is_logged_in(c) == "user_id" \in DOMAIN session[c]

\* get_current_user
get_current_user(c) ==
    IF is_logged_in(c) THEN GetById(session[c].user_id) ELSE NoRow

\* the flashed messages
FlashNone         == "none"
FlashLdapRejected == "Mot de passe LDAP incorrect."
FlashBadLogin     == "Email ou mot de passe incorrect."
FlashCreateFailed == "Erreur lors de la creation de votre compte local."
FlashWelcome      == "Bienvenue"
FlashLoggedOut    == "Vous avez ete deconnecte."
FlashBadType      == "Type d'utilisateur invalide."
FlashEmailTaken   == "Un compte avec cet email existe deja."
FlashRegistered   == "Votre compte a ete cree avec succes"
FlashRegisterFailed == "Une erreur est survenue lors de la creation du compte."

\* what is known of a request before the handler has run: the handler fills
\* in the values of its local variables and the response it returns
\*   lookup  how ldap_find_user_dn ended: "found", "nomatch", "error"
\*   bind    how ldap_authenticate ended: "ok", "refused", "error"
\*   local   how the local check of line 461 ended: "match", "mismatch", "nouser"
\*   user    the row the SELECT of line 405, 460 or 351 returned, or NoRow
\*   info    how ldap_get_user_info ended: "entry", "empty", "error"
\*   entry   the attributes the search of ldap_get_user_info returned,
\*           where they are an input of the step
\*   calls   how often each of the three directory helpers was called
\*   exc     what commit() raised: "IntegrityError", "OperationalError"
\*   created the id of the row the handler inserted, 0 when it inserted none
Request(c, route, email, password) ==
    [client |-> c, route |-> route, email |-> email, password |-> password,
     user_dn |-> None, lookup |-> "none", bind |-> "none", info |-> "none",
     entry |-> NoEntry,
     calls |-> [find |-> 0, bind |-> 0, info |-> 0], local |-> "none",
     user |-> NoRow, exc |-> "none", created |-> 0,
     user_type |-> "none",
     flash |-> FlashNone, page |-> "none"]

\* a handler returns: the browser is idle again and holds the response
Respond(c, r) ==
    /\ resp' = r
    /\ pc' = [pc EXCEPT ![c] = "idle"]
    /\ pend' = [pend EXCEPT ![c] = Request(c, "none", None, "none")]

\* RedirectFor without its elif: whoever is no admin is sent to /etudiants
RedirectFor_NoElif(user_type) ==
    IF user_type = "admin" THEN "admin_dashboard" ELSE "etudiants"

\* the surface a role is redirected to (lines 444-449 and 469-474)
RedirectFor(user_type) ==
    IF user_type = "admin" THEN "admin_dashboard"
    ELSE IF user_type = "professeur" THEN "professeurs"
    ELSE "etudiants"

(***************************************************************************)
(* /login                                                                  *)
(***************************************************************************)
AdminSuffix == <<"@", "smartpletude", "info">>

\* JitUserType with the "@" of the suffix forgotten: any address under a
\* subdomain of the administrative domain becomes admin
JitUserType_NoAt(email) ==
    IF EndsWith(email, Tail(AdminSuffix)) THEN "admin" ELSE "professeur"

\* the user_type of a row created by login (lines 415-418)
JitUserType(email) ==
    IF EndsWith(email, AdminSuffix) THEN "admin" ELSE "professeur"

\* lines 438-449 and 462-474: the session is bound to the row and the
\* browser is sent to the surface of the row's user_type
LoginSuccess(c, user, r) ==
    /\ session' = [session EXCEPT
                     ![c] = [user_id |-> user.id]]
    /\ Respond(c, [r EXCEPT !.flash = FlashWelcome,
                            !.page = RedirectFor(user.user_type)])

\* LoginLocal without the check of the hash: the row alone decides
LoginLocal_AnySecret(c, email, password, r) ==
    LET user == FindByEmail(email) IN
    IF user # NoRow
    THEN /\ LoginSuccess(c, user, [r EXCEPT !.user = user, !.local = "match"])
         /\ UNCHANGED <<users, nextId>>
    ELSE /\ Respond(c, [r EXCEPT !.user = user, !.local = "nouser",
                 !.flash = FlashBadLogin, !.page = "login.html"])
         /\ UNCHANGED <<users, nextId, session>>

\* lines 456-477: no DN, the local row and its hash decide
LoginLocal(c, email, password, r) ==
    LET user == FindByEmail(email) IN
    IF user # NoRow /\ check_password_hash(user.password_hash, password)
    THEN /\ LoginSuccess(c, user, [r EXCEPT !.user = user, !.local = "match"])
         /\ UNCHANGED <<users, nextId>>
    ELSE /\ Respond(c, [r EXCEPT
                 !.user = user,
                 !.local = IF user = NoRow THEN "nouser" ELSE "mismatch",
                 !.flash = FlashBadLogin, !.page = "login.html"])
         /\ UNCHANGED <<users, nextId, session>>

\* LoginRejected falling through to the local check instead of returning
LoginRejected_FallsThrough(c, email, password, r) ==
    LoginLocal(c, email, password, r)

\* LoginRejected trying the bind a second time before it gives up
LoginRejected_RetriesBind(c, email, password, r) ==
    LET r2 == [r EXCEPT !.calls.bind = @ + 1] IN
    IF ldap_authenticate(r.user_dn, password, FALSE)
    THEN /\ FindByEmail(email) # NoRow
         /\ LoginSuccess(c, FindByEmail(email),
                         [r2 EXCEPT !.user = FindByEmail(email)])
         /\ UNCHANGED <<users, nextId>>
    ELSE /\ Respond(c, [r2 EXCEPT !.flash = FlashLdapRejected,
                                  !.page = "login.html"])
         /\ UNCHANGED <<users, nextId, session>>

\* lines 451-454: the bind with the DN that was found did not succeed
LoginRejected(c, email, password, r) ==
    /\ Respond(c, [r EXCEPT !.flash = FlashLdapRejected, !.page = "login.html"])
    /\ UNCHANGED <<users, nextId, session>>

\* LoginBound bringing the user_type of an existing row in line with the
\* address before it uses the row
LoginBound_SyncsRole(c, email, password, r) ==
    LET user == FindByEmail(email)
        sync == [user EXCEPT !.user_type = JitUserType(email)]
    IN
    IF user # NoRow
    THEN /\ users' = [i \in 1..Len(users) |->
                        IF users[i].id = user.id THEN sync ELSE users[i]]
         /\ LoginSuccess(c, sync, [r EXCEPT !.user = user])
         /\ UNCHANGED nextId
    ELSE /\ pc' = [pc EXCEPT ![c] = "login_create"]
         /\ pend' = [pend EXCEPT ![c] = r]
         /\ UNCHANGED <<users, nextId, session, resp>>

\* LoginBound storing the secret the directory accepted in the row it reuses
LoginBound_StoresSecret(c, email, password, r) ==
    LET user == FindByEmail(email)
        sync == [user EXCEPT !.password_hash = generate_password_hash(password)]
    IN
    IF user # NoRow
    THEN /\ users' = [i \in 1..Len(users) |->
                        IF users[i].id = user.id THEN sync ELSE users[i]]
         /\ LoginSuccess(c, sync, [r EXCEPT !.user = user])
         /\ UNCHANGED nextId
    ELSE /\ pc' = [pc EXCEPT ![c] = "login_create"]
         /\ pend' = [pend EXCEPT ![c] = r]
         /\ UNCHANGED <<users, nextId, session, resp>>

\* lines 401-405: the bind succeeded; a row that exists is used as it is,
\* otherwise the handler goes on to create one
LoginBound(c, email, password, r) ==
    LET user == FindByEmail(email) IN
    IF user # NoRow
    THEN /\ LoginSuccess(c, user, [r EXCEPT !.user = user])
         /\ UNCHANGED <<users, nextId>>
    ELSE /\ pc' = [pc EXCEPT ![c] = "login_create"]
         /\ pend' = [pend EXCEPT ![c] = r]
         /\ UNCHANGED <<users, nextId, session, resp>>

\* lines 384-405 and 451-479 of login: from the request to the response, or
\* to the point where a row has to be created.  findFault and bindFault say
\* whether the connection to the directory raises in ldap_find_user_dn and
\* in ldap_authenticate
LoginRequest(c, raw, password, findFault) ==
    /\ pc[c] = "idle"
    /\ IF is_logged_in(c)
       THEN /\ Respond(c, [Request(c, "login", None, "none")
                              EXCEPT !.page = "home"])
            /\ UNCHANGED <<users, nextId, session>>
       ELSE IF ~ValidEmail(raw)
       THEN /\ Respond(c, [Request(c, "login", None, "none")
                              EXCEPT !.page = "login.html"])
            /\ UNCHANGED <<users, nextId, session>>
       ELSE
         LET email   == NormalizeEmail(raw)
             user_dn == ldap_find_user_dn(email, findFault)
             r0 == [Request(c, "login", email, password) EXCEPT
                      !.user_dn = user_dn,
                      !.calls.find = @ + 1,
                      !.lookup = IF findFault THEN "error"
                                 ELSE IF user_dn # None THEN "found"
                                 ELSE "nomatch"]
         IN
         IF user_dn # None
         THEN \E bindFault \in BOOLEAN :
              LET r1 == [r0 EXCEPT
                           !.calls.bind = @ + 1,
                           !.bind = IF bindFault THEN "error"
                                    ELSE IF ldap_authenticate(user_dn, password, FALSE)
                                    THEN "ok" ELSE "refused"]
              IN IF ldap_authenticate(user_dn, password, bindFault)
                 THEN LoginBound(c, email, password, r1)
                 ELSE LoginRejected(c, email, password, r1)
         ELSE LoginLocal(c, email, password, r0)

\* LoginCreate without the rollback of line 432: the row a faulty commit()
\* leaves behind stays in the table
LoginCreate_NoRollback(c, info, storeFault) ==
    /\ pc[c] = "login_create"
    /\ LET r         == [pend[c] EXCEPT !.info = info, !.calls.info = @ + 1]
           ldap_info == ldap_get_user_info(r.user_dn, info)
           user == NewRow(r.email, ldap_info.nom, ldap_info.prenom,
                          JitUserType(r.email),
                          generate_password_hash(RandomToken))
       IN
       IF UniqueViolation(r.email)
       THEN /\ Respond(c, [r EXCEPT !.exc = "IntegrityError",
                    !.flash = FlashCreateFailed, !.page = "login.html"])
            /\ UNCHANGED <<users, nextId, session>>
       ELSE /\ Len(users) < MaxUsers
            /\ users' = Append(users, user)
            /\ nextId' = nextId + 1
            /\ IF storeFault
               THEN /\ Respond(c, [r EXCEPT !.exc = "OperationalError",
                           !.flash = FlashCreateFailed, !.page = "login.html"])
                    /\ UNCHANGED session
               ELSE LoginSuccess(c, user, [r EXCEPT !.created = user.id])

\* lines 408-441 of login: the row is built from the directory's attributes
\* and inserted.  info says how ldap_get_user_info ended, storeFault whether
\* commit() raises for a reason other than the unique constraint
LoginCreate(c, info, storeFault) ==
    /\ pc[c] = "login_create"
    /\ LET r         == [pend[c] EXCEPT !.info = info, !.calls.info = @ + 1]
           ldap_info == ldap_get_user_info(r.user_dn, info)
           user == NewRow(r.email, ldap_info.nom, ldap_info.prenom,
                          JitUserType(r.email),
                          generate_password_hash(RandomToken))
       IN
       IF storeFault \/ UniqueViolation(r.email)
       THEN /\ Respond(c, [r EXCEPT
                    !.exc = IF storeFault THEN "OperationalError"
                            ELSE "IntegrityError",
                    !.flash = FlashCreateFailed, !.page = "login.html"])
            /\ UNCHANGED <<users, nextId, session>>
       ELSE /\ Len(users) < MaxUsers
            /\ users' = Append(users, user)
            /\ nextId' = nextId + 1
            /\ LoginSuccess(c, user,
                            [r EXCEPT !.created = user.id])

\* the values an attribute of an entry may have: none, an empty one, a name
SnValues        == {None, <<>>, <<"Dupont">>}
GivenNameValues == {None, <<>>, <<"Marie">>}
CnValues ==
    { None, <<>>, <<" ">>, <<"Jean">>, <<"Jean", " ", "Martin">>,
      <<" ", "Jean", " ", "Martin", " ">>, <<"Jean", " ", " ", "Martin">> }

\* the entries the search of ldap_get_user_info may return
Entries ==
    { [givenName |-> g, sn |-> n, cn |-> f] :
         g \in GivenNameValues, n \in SnValues, f \in CnValues }

\* lines 408-441 of login, as LoginCreate, for a directory whose entry for
\* the DN holds the attributes of entry
LoginCreateFrom(c, entry, info, storeFault) ==
    /\ pc[c] = "login_create"
    /\ LET r == [pend[c] EXCEPT
                   !.info = info, !.calls.info = @ + 1,
                   !.entry = IF info = "entry" THEN entry ELSE NoEntry]
           ldap_info == IF info = "entry" THEN NamesOfEntry(entry)
                        ELSE ldap_get_user_info(r.user_dn, info)
           user == NewRow(r.email, ldap_info.nom, ldap_info.prenom,
                          JitUserType(r.email),
                          generate_password_hash(RandomToken))
       IN
       IF storeFault \/ UniqueViolation(r.email)
       THEN /\ Respond(c, [r EXCEPT
                    !.exc = IF storeFault THEN "OperationalError"
                            ELSE "IntegrityError",
                    !.flash = FlashCreateFailed, !.page = "login.html"])
            /\ UNCHANGED <<users, nextId, session>>
       ELSE /\ Len(users) < MaxUsers
            /\ users' = Append(users, user)
            /\ nextId' = nextId + 1
            /\ LoginSuccess(c, user,
                            [r EXCEPT !.created = user.id])

(***************************************************************************)
(* /logout                                                                 *)
(***************************************************************************)
\* logout that answers without session.clear()
Logout_KeepsSession(c) ==
    /\ pc[c] = "idle"
    /\ Respond(c, [Request(c, "logout", None, "none") EXCEPT
                     !.user = get_current_user(c),
                     !.flash = FlashLoggedOut, !.page = "home"])
    /\ UNCHANGED <<users, nextId, session>>

\* logout: the row of the session is read for the log, then session.clear()
\* and a redirect to home, logged in or not
Logout(c) ==
    /\ pc[c] = "idle"
    /\ session' = [session EXCEPT ![c] = EmptySession]
    /\ Respond(c, [Request(c, "logout", None, "none") EXCEPT
                     !.user = get_current_user(c),
                     !.flash = FlashLoggedOut, !.page = "home"])
    /\ UNCHANGED <<users, nextId>>

(***************************************************************************)
(* /register                                                               *)
(***************************************************************************)
\* the choices of RegistrationForm.user_type
UserTypeChoices == {"etudiant", "professeur"}

\* what a browser may post to /register: the administrator's address, or
\* one the directory does not know, with or without a leading blank
PostedEmails ==
    { <<"Admin", "@", "smartpletude", "info">>, EleveMail,
      <<" ", "eleve", "@", "ecole", "fr">> }
PostedPasswords == {"pw2"}
PostedUserTypes == {"etudiant", "professeur", "admin"}
PostedNoms      == {<<" ", "Durand">>}
PostedPrenoms   == {<<"Zoe">>}

\* form.validate_on_submit() of RegistrationForm, as far as the handler
\* depends on it: a well-formed address and one of the offered choices
ValidRegistration(raw, user_type) ==
    ValidEmail(raw) /\ user_type \in UserTypeChoices

\* RegisterRequest taking whatever user_type is posted: neither the
\* choices of the form nor the test of line 345 stand in the way
RegisterRequest_AnyType(c, raw, user_type) ==
    /\ pc[c] = "idle"
    /\ LET q == Request(c, "register", None, "none") IN
       IF is_logged_in(c)
       THEN /\ Respond(c, [q EXCEPT !.page = "home"])
            /\ UNCHANGED <<users, nextId, session>>
       ELSE IF ~ValidEmail(raw)
       THEN /\ Respond(c, [q EXCEPT !.page = "register.html"])
            /\ UNCHANGED <<users, nextId, session>>
       ELSE
         LET email == NormalizeEmail(raw)
             r0 == [q EXCEPT !.email = email, !.user_type = user_type]
         IN
         IF FindByEmail(email) # NoRow
         THEN /\ Respond(c, [r0 EXCEPT !.user = FindByEmail(email),
                                       !.flash = FlashEmailTaken,
                                       !.page = "register.html"])
              /\ UNCHANGED <<users, nextId, session>>
         ELSE /\ pc' = [pc EXCEPT ![c] = "register_insert"]
              /\ pend' = [pend EXCEPT ![c] = r0]
              /\ UNCHANGED <<users, nextId, session, resp>>

\* lines 337-355 of register: from the request to the response, or to the
\* point where the row is built and inserted
RegisterRequest(c, raw, user_type) ==
    /\ pc[c] = "idle"
    /\ LET q == Request(c, "register", None, "none") IN
       IF is_logged_in(c)
       THEN /\ Respond(c, [q EXCEPT !.page = "home"])
            /\ UNCHANGED <<users, nextId, session>>
       ELSE IF ~ValidRegistration(raw, user_type)
       THEN /\ Respond(c, [q EXCEPT !.page = "register.html"])
            /\ UNCHANGED <<users, nextId, session>>
       ELSE IF user_type \notin {"etudiant", "professeur"}
       THEN /\ Respond(c, [q EXCEPT !.flash = FlashBadType,
                                    !.page = "register.html"])
            /\ UNCHANGED <<users, nextId, session>>
       ELSE
         LET email == NormalizeEmail(raw)
             r0 == [q EXCEPT !.email = email, !.user_type = user_type]
         IN
         IF FindByEmail(email) # NoRow
         THEN /\ Respond(c, [r0 EXCEPT !.user = FindByEmail(email),
                                       !.flash = FlashEmailTaken,
                                       !.page = "register.html"])
              /\ UNCHANGED <<users, nextId, session>>
         ELSE /\ pc' = [pc EXCEPT ![c] = "register_insert"]
              /\ pend' = [pend EXCEPT ![c] = r0]
              /\ UNCHANGED <<users, nextId, session, resp>>

\* lines 358-380 of register: the row is built from the remaining fields of
\* the form and inserted.  storeFault says whether commit() raises for a
\* reason other than the unique constraint
RegisterInsert(c, nom, prenom, password, storeFault) ==
    /\ pc[c] = "register_insert"
    /\ LET r    == pend[c]
           user == NewRow(r.email, Clean(Strip(nom)), Clean(Strip(prenom)),
                          r.user_type, generate_password_hash(password))
       IN
       IF storeFault \/ UniqueViolation(r.email)
       THEN /\ Respond(c, [r EXCEPT
                    !.exc = IF storeFault THEN "OperationalError"
                            ELSE "IntegrityError",
                    !.flash = FlashRegisterFailed, !.page = "register.html"])
            /\ UNCHANGED <<users, nextId, session>>
       ELSE /\ Len(users) < MaxUsers
            /\ users' = Append(users, user)
            /\ nextId' = nextId + 1
            /\ Respond(c, [r EXCEPT !.created = user.id,
                                    !.flash = FlashRegistered,
                                    !.page = "login"])
            /\ UNCHANGED session

(***************************************************************************)
(* The pages behind the login                                              *)
(***************************************************************************)
FlashMustLogin == "Vous devez etre connecte pour acceder a cette page."
FlashProfOnly  == "Acces reserve aux professeurs et admins."
FlashEtudOnly  == "Acces reserve aux etudiants et admins."
FlashAdminOnly == "Acces reserve aux administrateurs."

\* professeurs without its second test: whoever is logged in sees the page
professeurs_NoRoleTest(c) ==
    /\ pc[c] = "idle"
    /\ LET current_user == get_current_user(c)
           r == [Request(c, "professeurs", None, "none") EXCEPT
                    !.user = current_user]
       IN Respond(c, IF current_user = NoRow
                     THEN [r EXCEPT !.flash = FlashMustLogin, !.page = "login"]
                     ELSE [r EXCEPT !.page = "professeurs.html"])
    /\ UNCHANGED <<users, nextId, session>>

\* /professeurs: the login page without a row for the session, home for a
\* row that is neither professeur nor admin, the page otherwise
professeurs(c) ==
    /\ pc[c] = "idle"
    /\ LET current_user == get_current_user(c)
           r == [Request(c, "professeurs", None, "none") EXCEPT
                    !.user = current_user]
       IN Respond(c, IF current_user = NoRow
                     THEN [r EXCEPT !.flash = FlashMustLogin, !.page = "login"]
                     ELSE IF current_user.user_type \notin {"professeur", "admin"}
                     THEN [r EXCEPT !.flash = FlashProfOnly, !.page = "home"]
                     ELSE [r EXCEPT !.page = "professeurs.html"])
    /\ UNCHANGED <<users, nextId, session>>

\* /etudiants: the same for etudiant and admin
etudiants(c) ==
    /\ pc[c] = "idle"
    /\ LET current_user == get_current_user(c)
           r == [Request(c, "etudiants", None, "none") EXCEPT
                    !.user = current_user]
       IN Respond(c, IF current_user = NoRow
                     THEN [r EXCEPT !.flash = FlashMustLogin, !.page = "login"]
                     ELSE IF current_user.user_type \notin {"etudiant", "admin"}
                     THEN [r EXCEPT !.flash = FlashEtudOnly, !.page = "home"]
                     ELSE [r EXCEPT !.page = "etudiants.html"])
    /\ UNCHANGED <<users, nextId, session>>

\* /admin_dashboard: home unless the session's row is an admin's
admin_dashboard(c) ==
    /\ pc[c] = "idle"
    /\ LET current_user == get_current_user(c)
           r == [Request(c, "admin_dashboard", None, "none") EXCEPT
                    !.user = current_user]
       IN Respond(c, IF current_user = NoRow \/ current_user.user_type # "admin"
                     THEN [r EXCEPT !.flash = FlashAdminOnly, !.page = "home"]
                     ELSE [r EXCEPT !.page = "admin_dashboard.html"])
    /\ UNCHANGED <<users, nextId, session>>

(***************************************************************************)
(* db.py: the administrator's console, on the same table                   *)
(***************************************************************************)
\* the answers the console takes for a yes
Confirmations == {<<"oui">>, <<"o">>, <<"yes">>, <<"y">>}

\* what the administrator may type at a prompt of the console
ConsoleAnswers == {<<"Oui">>, <<"non">>}
ConsoleEmails  ==
    { AdminMail, <<"Admin", "@", "smartpletude", "info">>,
      <<" ", "eleve", "@", "ecole", "fr">> }

\* the two rows create_test_users builds, with the ids the INSERT gives them
TestUsers(first) ==
    << [id |-> first, email |-> <<"prof", "@", "smartpletude", "info">>,
        password_hash |-> generate_password_hash("prof123"),
        nom |-> <<"Dupont">>, prenom |-> <<"Marie">>,
        user_type |-> "professeur"],
       [id |-> first + 1,
        email |-> <<"etudiant", "@", "smartpletude", "info">>,
        password_hash |-> generate_password_hash("etudiant123"),
        nom |-> <<"Martin">>, prenom |-> <<"Pierre">>,
        user_type |-> "etudiant"] >>

\* init_database: drop_all() and create_all() leave an empty table whose
\* ids start again at 1; nothing happens when the connection test fails.
\* The browsers' cookies are out of its reach.
init_database(up) ==
    /\ IF up
       THEN users' = <<>> /\ nextId' = 1
       ELSE UNCHANGED <<users, nextId>>
    /\ UNCHANGED <<session, pc, pend, resp>>

\* create_test_users: both rows go in with one commit(), or none does
create_test_users ==
    /\ IF \E i \in 1..2 : UniqueViolation(TestUsers(nextId)[i].email)
       THEN UNCHANGED <<users, nextId>>
       ELSE /\ Len(users) + 2 <= MaxUsers
            /\ users' = users \o TestUsers(nextId)
            /\ nextId' = nextId + 2
    /\ UNCHANGED <<session, pc, pend, resp>>

\* reset_database: init_database and, when it succeeded, create_test_users
reset_database(up) ==
    /\ IF up
       THEN users' = TestUsers(1) /\ nextId' = 3
       ELSE UNCHANGED <<users, nextId>>
    /\ UNCHANGED <<session, pc, pend, resp>>

\* delete_user_by_email: the typed address is stripped only, looked up, and
\* the row is deleted after a confirmation
delete_user_by_email(raw, confirm, up) ==
    LET email == Strip(raw)
        user  == FindByEmail(email)
    IN
    /\ IF up /\ user # NoRow /\ Lower(confirm) \in Confirmations
       THEN users' = SelectSeq(users, LAMBDA u : u.id # user.id)
       ELSE UNCHANGED users
    /\ UNCHANGED <<nextId, session, pc, pend, resp>>

(***************************************************************************)
(* Specification                                                           *)
(***************************************************************************)
\* init_db() has created an empty table and no browser holds a session
Init ==
    /\ users = <<>>
    /\ nextId = 1
    /\ session = [c \in Clients |-> EmptySession]
    /\ pc = [c \in Clients |-> "idle"]
    /\ pend = [c \in Clients |-> Request(c, "none", None, "none")]
    /\ resp = Request("none", "none", None, "none")

DoLoginRequest ==
    \E c \in Clients, raw \in RawEmails, password \in Passwords,
       findFault \in BOOLEAN :
        LoginRequest(c, raw, password, findFault)

DoLoginCreate ==
    \E c \in Clients, info \in InfoOutcomes, storeFault \in BOOLEAN :
        LoginCreate(c, info, storeFault)

DoLogout == \E c \in Clients : Logout(c)

DoRegisterRequest ==
    \E c \in Clients, raw \in PostedEmails, user_type \in PostedUserTypes :
        RegisterRequest(c, raw, user_type)

DoRegisterInsert ==
    \E c \in Clients, nom \in PostedNoms, prenom \in PostedPrenoms,
       password \in PostedPasswords, storeFault \in BOOLEAN :
        RegisterInsert(c, nom, prenom, password, storeFault)

Next ==
    \/ DoLoginRequest
    \/ DoLoginCreate
    \/ DoLogout
    \/ DoRegisterRequest
    \/ DoRegisterInsert

Spec == Init /\ [][Next]_vars

\* the browser that is followed while the console is in use
Visitors == {"c1"}

DoInitDatabase == \E up \in BOOLEAN : init_database(up)

DoCreateTestUsers == create_test_users

DoResetDatabase == \E up \in BOOLEAN : reset_database(up)

DoDeleteUser ==
    /\ nextId <= MaxId
    /\ \E raw \in ConsoleEmails, confirm \in ConsoleAnswers, up \in BOOLEAN :
          delete_user_by_email(raw, confirm, up)

\* the application with one browser, and the console of db.py beside it
NextConsole ==
    \/ \E raw \in RawEmails, password \in Passwords, findFault \in BOOLEAN :
          \E c \in Visitors : LoginRequest(c, raw, password, findFault)
    \/ \E info \in InfoOutcomes, storeFault \in BOOLEAN :
          \E c \in Visitors : LoginCreate(c, info, storeFault)
    \/ \E c \in Visitors : Logout(c)
    \/ \E raw \in PostedEmails, user_type \in PostedUserTypes :
          \E c \in Visitors : RegisterRequest(c, raw, user_type)
    \/ \E nom \in PostedNoms, prenom \in PostedPrenoms,
          password \in PostedPasswords, storeFault \in BOOLEAN :
          \E c \in Visitors : RegisterInsert(c, nom, prenom, password, storeFault)
    \/ DoInitDatabase
    \/ DoCreateTestUsers
    \/ DoResetDatabase
    \/ DoDeleteUser

SpecConsole == Init /\ [][NextConsole]_vars

\* one browser that registers, logs in and out and asks for the three
\* pages, while rows may be deleted at the console
NextPages ==
    \/ \E raw \in RawEmails, password \in Passwords, findFault \in BOOLEAN :
          \E c \in Visitors : LoginRequest(c, raw, password, findFault)
    \/ \E info \in InfoOutcomes, storeFault \in BOOLEAN :
          \E c \in Visitors : LoginCreate(c, info, storeFault)
    \/ \E c \in Visitors : Logout(c)
    \/ \E raw \in PostedEmails, user_type \in PostedUserTypes :
          \E c \in Visitors : RegisterRequest(c, raw, user_type)
    \/ \E nom \in PostedNoms, prenom \in PostedPrenoms,
          password \in PostedPasswords, storeFault \in BOOLEAN :
          \E c \in Visitors : RegisterInsert(c, nom, prenom, password, storeFault)
    \/ \E c \in Visitors : professeurs(c)
    \/ \E c \in Visitors : etudiants(c)
    \/ \E c \in Visitors : admin_dashboard(c)
    \/ DoDeleteUser

SpecPages == Init /\ [][NextPages]_vars

\* one browser that logs in and out, against a directory whose entries hold
\* any of the attribute values
NextNames ==
    \/ \E raw \in RawEmails, password \in Passwords, findFault \in BOOLEAN :
          \E c \in Visitors : LoginRequest(c, raw, password, findFault)
    \/ \E entry \in Entries, info \in InfoOutcomes, storeFault \in BOOLEAN :
          \E c \in Visitors : LoginCreateFrom(c, entry, info, storeFault)
    \/ \E c \in Visitors : Logout(c)

SpecNames == Init /\ [][NextNames]_vars

\* what the column user_type, a String(20) without constraint, may hold in
\* a table the application is started on
StoredTypes == {"admin", "professeur", "etudiant", "tuteur"}

\* the rows such a table may hold for one address
StoredRows ==
    { [id |-> 1, email |-> email, password_hash |-> generate_password_hash(p),
       nom |-> <<"Durand">>, prenom |-> <<"Zoe">>, user_type |-> user_type] :
         email \in {AdminMail, EleveMail},
         p \in Passwords \cup {RandomToken},
         user_type \in StoredTypes }

\* init_db() on a database that has the table already: create_all() keeps
\* the table and its rows
InitStored ==
    /\ \E row \in StoredRows : users = <<row>>
    /\ nextId = 2
    /\ session = [c \in Clients |-> EmptySession]
    /\ pc = [c \in Clients |-> "idle"]
    /\ pend = [c \in Clients |-> Request(c, "none", None, "none")]
    /\ resp = Request("none", "none", None, "none")

\* one browser that logs in and out on such a table
NextStored ==
    \/ \E raw \in RawEmails, password \in Passwords, findFault \in BOOLEAN :
          \E c \in Visitors : LoginRequest(c, raw, password, findFault)
    \/ \E info \in InfoOutcomes, storeFault \in BOOLEAN :
          \E c \in Visitors : LoginCreate(c, info, storeFault)
    \/ \E c \in Visitors : Logout(c)

SpecStored == InitStored /\ [][NextStored]_vars

(***************************************************************************)
(* The vocabulary of the claims                                            *)
(***************************************************************************)
\* the outcome Resolved: the browser is sent to a role's surface
Resolved(r) == r.page \in {"admin_dashboard", "professeurs", "etudiants"}

\* the outcome InvalidCredentials: the login form again, with a message that
\* blames the credentials
InvalidCredentials(r) ==
    r.page = "login.html" /\ r.flash \in {FlashLdapRejected, FlashBadLogin}

\* the outcome ProvisioningFailed: the login form again, with the message
\* that the local account could not be created
ProvisioningFailed(r) == r.page = "login.html" /\ r.flash = FlashCreateFailed

\* the surface of each role
Surface(role) ==
    CASE role = "admin"      -> "admin_dashboard"
      [] role = "professeur" -> "professeurs"
      [] role = "etudiant"   -> "etudiants"
      [] OTHER               -> "none"

\* the part of an address after its "@"
Domain(email) ==
    LET at == CHOOSE i \in 1..Len(email) : email[i] = "@"
    IN  SubSeq(email, at + 1, Len(email))

\* the configured administrative domain
AdminDomain == <<"smartpletude", "info">>

\* the role the policy derives from an address
DomainRole(email) ==
    IF Domain(email) = AdminDomain THEN "admin" ELSE "professeur"

\* the last response answers a login attempt that reached the directory
LoginAttempt == resp.route = "login" /\ resp.lookup # "none"

\* the session of the browser that made the last request is bound to row u
SessionBoundTo(u) ==
    /\ is_logged_in(resp.client)
    /\ session[resp.client].user_id = u.id
    /\ get_current_user(resp.client) = u

\* the rows login created: their hash is that of the random token
JitRows == {i \in 1..Len(users) :
              users[i].password_hash = <<"bcrypt", RandomToken>>}

(***************************************************************************)
(* C1 - C4: the four cases of a login attempt                              *)
(***************************************************************************)
\* C1: a login attempt whose email the directory resolves to a DN and whose
\* secret the bind refuses ends InvalidCredentials with no session, and the
\* local secret check is not performed, also when a local row for the email
\* has a hash that matches the submitted secret.
C1_DirectoryRejectionIsTerminal ==
    (LoginAttempt /\ resp.lookup = "found" /\ resp.bind = "refused")
        => /\ InvalidCredentials(resp)
           /\ ~is_logged_in(resp.client)
           /\ resp.local = "none"

\* the case of C1: the directory refused a secret that the local row of the
\* same email accepts
C1_Witness ==
    /\ LoginAttempt /\ resp.lookup = "found" /\ resp.bind = "refused"
    /\ RowsWith(resp.email) # {}
    /\ FindByEmail(resp.email).password_hash = <<"bcrypt", resp.password>>

\* C2 as stated: a login attempt whose email is in the directory and whose
\* secret the bind accepts ends Resolved, with the role stored in the local
\* row if one existed before the attempt and the role derived from the
\* domain otherwise.
C2_Original ==
    (LoginAttempt /\ resp.lookup = "found" /\ resp.bind = "ok")
        => /\ Resolved(resp)
           /\ is_logged_in(resp.client)
           /\ get_current_user(resp.client) # NoRow
           /\ get_current_user(resp.client).email = resp.email
           /\ get_current_user(resp.client).user_type =
                 (IF resp.user # NoRow THEN resp.user.user_type
                  ELSE DomainRole(resp.email))
           /\ resp.page = Surface(get_current_user(resp.client).user_type)

\* C2 amended: the same, unless no local row existed and inserting the new
\* row failed; the attempt then ends ProvisioningFailed without a session.
C2_BoundLoginResolvesOrFailsToProvision ==
    (LoginAttempt /\ resp.lookup = "found" /\ resp.bind = "ok")
        => IF resp.exc = "none"
           THEN /\ Resolved(resp)
                /\ is_logged_in(resp.client)
                /\ get_current_user(resp.client) # NoRow
                /\ get_current_user(resp.client).email = resp.email
                /\ get_current_user(resp.client).user_type =
                      (IF resp.user # NoRow THEN resp.user.user_type
                       ELSE DomainRole(resp.email))
                /\ resp.page = Surface(get_current_user(resp.client).user_type)
           ELSE /\ resp.user = NoRow
                /\ ProvisioningFailed(resp)
                /\ ~is_logged_in(resp.client)

\* the case of C2: a bound login that found a local row whose stored role
\* is not the one the domain would give
C2_Witness ==
    /\ LoginAttempt /\ resp.lookup = "found" /\ resp.bind = "ok"
    /\ resp.user # NoRow
    /\ resp.user.user_type # DomainRole(resp.email)
    /\ Resolved(resp)

\* C3: a login attempt for which the lookup returns no DN and a local row
\* exists whose hash matches the submitted secret ends Resolved, with the
\* session bound to that row's id and the surface of its stored role.
C3_LocalLoginResolves ==
    (/\ LoginAttempt /\ resp.user_dn = None
     /\ resp.user # NoRow
     /\ resp.user.password_hash = <<"bcrypt", resp.password>>)
        => /\ Resolved(resp)
           /\ SessionBoundTo(resp.user)
           /\ resp.page = Surface(resp.user.user_type)

\* the case of C3: a professeur the directory does not know logged in
\* against the local row
C3_Witness ==
    /\ LoginAttempt /\ resp.lookup = "nomatch"
    /\ resp.email \notin DOMAIN Directory
    /\ resp.user # NoRow
    /\ resp.user.password_hash = <<"bcrypt", resp.password>>
    /\ resp.user.user_type = "professeur"
    /\ resp.page = "professeurs"

\* C4: a login attempt whose email is in neither the directory nor the
\* local store ends InvalidCredentials: no session, and no row is created.
C4_UnknownEverywhereIsInvalid ==
    (/\ resp.route = "login" /\ resp.email # None
     /\ resp.email \notin DOMAIN Directory
     /\ resp.user = NoRow)
        => /\ InvalidCredentials(resp)
           /\ ~is_logged_in(resp.client)
           /\ resp.created = 0
           /\ RowsWith(resp.email) = {}

\* the case of C4: the directory answered and had no entry, the local
\* store had no row
C4_Witness ==
    /\ LoginAttempt /\ resp.lookup = "nomatch"
    /\ resp.email \notin DOMAIN Directory
    /\ resp.local = "nouser"
    /\ Len(users) > 0

(***************************************************************************)
(* C5 - C6: two attempts provisioning the same identity                    *)
(***************************************************************************)
\* the last response answers a bound login that found no local row at line
\* 405 and whose INSERT was not hit by a fault of the store
ProvisioningAttempt ==
    /\ LoginAttempt /\ resp.lookup = "found" /\ resp.bind = "ok"
    /\ resp.user = NoRow
    /\ resp.exc # "OperationalError"

\* C5: when two login attempts for the same directory identity without
\* local row, both with the correct secret, are interleaved in any order,
\* also with both lookups before either insert, exactly one row for the
\* email is persisted and both attempts end Resolved with the same id.
\* Here: one browser holds the session of the row a login created, and the
\* other's attempt for the same email had found no row.
C5_ConcurrentProvisioningIsIdempotent ==
    \A other \in Clients \ {resp.client} :
        (/\ ProvisioningAttempt
         /\ is_logged_in(other)
         /\ get_current_user(other) # NoRow
         /\ get_current_user(other).email = resp.email
         /\ get_current_user(other).password_hash = <<"bcrypt", RandomToken>>)
            => /\ Cardinality(RowsWith(resp.email)) = 1
               /\ Resolved(resp)
               /\ is_logged_in(resp.client)
               /\ session[resp.client].user_id = session[other].user_id

\* C6: an insert of login that fails because another attempt has just
\* created a row with the same email is recovered by fetching that row and
\* going on to a Resolved session; it is not surfaced as an error.
C6_UniqueConflictIsRecovered ==
    (LoginAttempt /\ resp.exc = "IntegrityError")
        => /\ Resolved(resp)
           /\ SessionBoundTo(FindByEmail(resp.email))

(***************************************************************************)
(* C7 - C9: what the caller sees of a failure                              *)
(***************************************************************************)
\* what the caller sees of the last response
Visible(r) == [flash |-> r.flash, page |-> r.page,
               logged_in |-> is_logged_in(r.client)]

\* the verdict DirectoryRejected: a DN was found and the bind was refused
DirectoryRejected(r) ==
    r.route = "login" /\ r.lookup = "found" /\ r.bind = "refused"

\* the verdict NotFound: no entry in the directory, and no local row or a
\* hash that does not match
NotFound(r) ==
    r.route = "login" /\ r.lookup = "nomatch" /\ r.local \in {"nouser", "mismatch"}

\* what the caller sees of NotFound (lines 475-479)
NotFoundVisible ==
    [flash |-> FlashBadLogin, page |-> "login.html", logged_in |-> FALSE]

\* C7: DirectoryRejected and NotFound produce the same caller-visible
\* result (message and session state).
C7_RejectedAndNotFoundLookAlike ==
    (DirectoryRejected(resp) \/ NotFound(resp))
        => Visible(resp) = NotFoundVisible

\* C8: a login attempt in which the directory lookup fails operationally
\* for an email without local row ends with ServiceError, an outcome that is
\* not InvalidCredentials, and creates no row.
C8_LookupFaultIsServiceError ==
    (LoginAttempt /\ resp.lookup = "error" /\ resp.user = NoRow)
        => /\ ~InvalidCredentials(resp)
           /\ ~Resolved(resp)
           /\ resp.created = 0
           /\ RowsWith(resp.email) = {}

\* C9: a login attempt in which a DN was found and the bind fails for an
\* operational reason ends with ServiceError, not with the outcome of wrong
\* credentials.
C9_BindFaultIsServiceError ==
    (LoginAttempt /\ resp.lookup = "found" /\ resp.bind = "error")
        => /\ ~InvalidCredentials(resp)
           /\ ~Resolved(resp)

(***************************************************************************)
(* C10: the role of a provisioned row                                      *)
(***************************************************************************)
\* C10: a row created by login has role admin exactly when the domain of
\* its email is the administrative domain, and professeur otherwise; it
\* never has role etudiant.
C10_JitRoleFollowsDomain ==
    /\ \A i \in JitRows :
          /\ users[i].user_type = "admin" <=> Domain(users[i].email) = AdminDomain
          /\ users[i].user_type # "admin" => users[i].user_type = "professeur"
    /\ (resp.route = "login" /\ resp.created # 0)
          => /\ GetById(resp.created).email = resp.email
             /\ GetById(resp.created).user_type = DomainRole(resp.email)

\* the case of C10: login has created a row under the administrative
\* domain and a row under one of its subdomains
C10_Witness ==
    /\ \E i \in JitRows : Domain(users[i].email) = AdminDomain
    /\ \E i \in JitRows : Domain(users[i].email) # AdminDomain
    /\ resp.route = "login" /\ resp.created # 0

(***************************************************************************)
(* C11: a failed insert                                                    *)
(***************************************************************************)
\* browser c ends the second half of login with a failed commit()
CreateFails(c) ==
    /\ pc[c] = "login_create" /\ pc'[c] = "idle"
    /\ resp'.client = c /\ resp'.exc # "none"

\* C11: when persisting the row login builds fails, the attempt ends
\* ProvisioningFailed: the session holds no user id afterwards and the table
\* holds no row, partial or complete, of that attempt.
C11_FailedInsertLeavesNothing ==
    [][\A c \in Clients :
          CreateFails(c)
             => /\ resp'.page = "login.html"
                /\ resp'.flash = FlashCreateFailed
                /\ resp'.created = 0
                /\ "user_id" \notin DOMAIN session'[c]
                /\ users' = users
                /\ nextId' = nextId]_vars

\* the case of C11: commit() raised although no row held the email
C11_Witness ==
    /\ LoginAttempt /\ resp.exc = "OperationalError"
    /\ RowsWith(resp.email) = {}
    /\ ProvisioningFailed(resp)

(***************************************************************************)
(* C12: a bound login that finds a row                                     *)
(***************************************************************************)
\* response r answers a login the directory accepted for an email that had
\* a row when the handler looked for it
BoundExisting(r) ==
    /\ r.route = "login" /\ r.bind = "ok"
    /\ r.user # NoRow /\ r.created = 0

\* C12: a login the directory accepted for an email that already has a row
\* binds the session to that row's id, goes to the surface of the stored
\* role and leaves the table as it was: the row keeps its role, names and
\* hash, and no row is added.
C12_BoundLoginReusesRow ==
    [][(BoundExisting(resp') /\ resp' # resp)
          => /\ users' = users
             /\ nextId' = nextId
             /\ \E i \in 1..Len(users) : users[i] = resp'.user
             /\ resp'.user.email = resp'.email
             /\ session'[resp'.client] = [user_id |-> resp'.user.id]
             /\ resp'.page = Surface(resp'.user.user_type)]_vars

\* the case of C12: the row was registered through the form, with a secret
\* of its own, and the directory login left it in the table as it was
C12_Witness ==
    /\ BoundExisting(resp)
    /\ resp.user.password_hash # generate_password_hash(RandomToken)
    /\ GetById(resp.user.id) = resp.user
    /\ SessionBoundTo(resp.user)

(***************************************************************************)
(* C13: the email column                                                   *)
(***************************************************************************)
\* C13: whatever the interleaving of registrations and of logins that
\* create rows, no two rows of the table hold the same email.
C13_EmailIsUnique ==
    \A i, j \in 1..Len(users) :
        users[i].email = users[j].email => i = j

\* the case of C13: a registration and a login raced for one email; the
\* login's row went in first and the registration's insert was refused
C13_Witness ==
    /\ resp.route = "register" /\ resp.exc = "IntegrityError"
    /\ \E i \in JitRows : users[i].email = resp.email
    /\ Cardinality(RowsWith(resp.email)) = 1

(***************************************************************************)
(* C14: what a session refers to                                           *)
(***************************************************************************)
\* C14: in every reachable state a session that holds a user id refers to
\* one row of the table, whatever logins, logouts, registrations, deletions
\* and resets came before.
C14_SessionRefersToARow ==
    \A c \in Clients :
        is_logged_in(c)
           => Cardinality({i \in 1..Len(users) :
                              users[i].id = session[c].user_id}) = 1

(***************************************************************************)
(* C15: where a resolved login is sent                                     *)
(***************************************************************************)
\* the three roles of the policy
Roles == {"admin", "professeur", "etudiant"}

C16_RoleIsFixed ==
    [][/\ \A i \in 1..Len(users) :
             /\ users[i].user_type \in Roles
             /\ \E j \in 1..Len(users') :
                   /\ users'[j].id = users[i].id
                   /\ users'[j].user_type = users[i].user_type
       /\ \A j \in 1..Len(users') : users'[j].user_type \in Roles]_vars

\* the case of C16: a row registered as student under the administrative
\* domain was used by a directory login, beside a row a login created, and
\* it is a student's row still
C16_Witness ==
    /\ BoundExisting(resp) /\ Len(users) = 2
    /\ Domain(resp.email) = AdminDomain
    /\ resp.user.user_type = "etudiant"
    /\ GetById(resp.user.id).user_type = "etudiant"
    /\ JitRows # {}

(***************************************************************************)
(* C17, C18: the calls to the directory                                    *)
(***************************************************************************)
\* the row the last request inserted, NoRow when it inserted none
CreatedRow == IF resp.created = 0 THEN NoRow ELSE GetById(resp.created)

\* C17: a fault in a directory call stays inside the helper, which returns
\* the value of a negative answer: None for the lookup, False for the bind,
\* the unknown names for the attribute fetch.  Every login attempt that
\* reached the directory ends Resolved, InvalidCredentials or
\* ProvisioningFailed.
C17_DirectoryFaultsAreValues ==
    LoginAttempt
       => /\ Resolved(resp) \/ InvalidCredentials(resp)
             \/ ProvisioningFailed(resp)
          /\ resp.lookup = "error"
                => resp.user_dn = None /\ resp.bind = "none"
                   /\ resp.local # "none"
          /\ resp.bind = "error"
                => resp.flash = FlashLdapRejected /\ InvalidCredentials(resp)
          /\ resp.info \in {"empty", "error"}
                => \/ ProvisioningFailed(resp)
                   \/ /\ Resolved(resp)
                      /\ CreatedRow # NoRow
                      /\ CreatedRow.nom = NomInconnu
                      /\ CreatedRow.prenom = PrenomInconnu

\* the case of C17: the attribute fetch raised and the login went on to
\* create the row, with the unknown names
C17_Witness ==
    /\ LoginAttempt /\ resp.info = "error"
    /\ Resolved(resp)
    /\ CreatedRow # NoRow /\ CreatedRow.nom = NomInconnu

\* C18: a login attempt calls the lookup once, the bind at most once and
\* the attribute fetch at most once; a call that failed is not made again,
\* so a failed lookup is followed by no bind and a failed bind by no
\* session; an attempt that waits to create its row has made one lookup and
\* one bind and no fetch yet.
C18_EachDirectoryCallOnce ==
    /\ LoginAttempt
          => /\ resp.calls.find = 1
             /\ resp.calls.bind = (IF resp.lookup = "found" THEN 1 ELSE 0)
             /\ resp.calls.info = (IF resp.info # "none" THEN 1 ELSE 0)
             /\ resp.lookup = "error" => resp.bind = "none"
             /\ resp.bind \in {"error", "refused"}
                   => /\ ~Resolved(resp)
                      /\ resp.info = "none"
                      /\ "user_id" \notin DOMAIN session[resp.client]
    /\ \A c \in Clients :
          pc[c] = "login_create"
             => /\ pend[c].calls = [find |-> 1, bind |-> 1, info |-> 0]
                /\ pend[c].bind = "ok"

\* the case of C18: the bind raised for a secret the directory would have
\* accepted, and the attempt ended there
C18_Witness ==
    /\ LoginAttempt /\ resp.bind = "error"
    /\ resp.password = EntryOf(resp.user_dn).password
    /\ resp.calls = [find |-> 1, bind |-> 1, info |-> 0]
    /\ InvalidCredentials(resp)

(***************************************************************************)
(* C19: what an attempt depends on                                         *)
(***************************************************************************)
\* C19: a login attempt is decided by the submitted email and secret, the
\* directory and the table, whatever earlier requests left behind: each
\* step in which login handles a valid form looks the submitted address up
\* and answers for it, or goes on to create its row.
C19_AttemptIgnoresEarlierCalls ==
    [][\A c \in Clients, raw \in RawEmails, password \in Passwords,
          findFault \in BOOLEAN :
          (ValidEmail(raw) /\ LoginRequest(c, raw, password, findFault))
             => \/ /\ pc'[c] = "login_create"
                   /\ pend'[c].email = NormalizeEmail(raw)
                \/ /\ resp'.client = c /\ resp'.lookup # "none"
                   /\ resp'.email = NormalizeEmail(raw)
                   /\ resp'.password = password]_vars

(***************************************************************************)
(* C20: the life of a session                                              *)
(***************************************************************************)
\* C20: a session comes to hold a user id only in the step that answers a
\* login of that browser with a role's surface, after the directory
\* accepted the secret or the local hash matched it, and the id is that of
\* a row; a session changes in no other way than that and logout; after a
\* logout the session holds no user id and the table is as it was.
C20_SessionLifecycle ==
    [][/\ \A c \in Clients :
             session'[c] # session[c]
                => \/ /\ "user_id" \notin DOMAIN session[c]
                      /\ resp'.client = c /\ resp'.route = "login"
                      /\ Resolved(resp')
                      /\ resp'.bind = "ok" \/ resp'.local = "match"
                      /\ \E j \in 1..Len(users') :
                            /\ users'[j].email = resp'.email
                            /\ session'[c] = [user_id |-> users'[j].id]
                   \/ /\ resp'.client = c /\ resp'.route = "logout"
                      /\ session'[c] = EmptySession
       /\ resp'.route = "logout"
             => /\ "user_id" \notin DOMAIN session'[resp'.client]
                /\ resp' # resp => users' = users /\ nextId' = nextId]_vars

\* the case of C20: a browser that was logged in as a row of the table has
\* logged out; the row is there and the session is empty
C20_Witness ==
    /\ resp.route = "logout" /\ resp.user # NoRow
    /\ GetById(resp.user.id) = resp.user
    /\ session[resp.client] = EmptySession

(***************************************************************************)
(* C21: the names of a row login creates                                   *)
(***************************************************************************)
\* an attribute is there and holds something
Present(v) == v # None /\ v # <<>>

\* the full name, split at its first space once the spaces around it are
\* taken off
FullNameParts(entry) ==
    IF Present(entry.cn) THEN SplitOnce(Strip(entry.cn)) ELSE <<>>

\* the given name the chain arrives at
ChainPrenom(entry) ==
    IF Present(entry.givenName) THEN entry.givenName
    ELSE IF Len(FullNameParts(entry)) >= 1 /\ Present(FullNameParts(entry)[1])
    THEN FullNameParts(entry)[1]
    ELSE PrenomInconnu

\* the family name the chain arrives at
ChainNom(entry) ==
    IF Present(entry.sn) THEN entry.sn
    ELSE IF Len(FullNameParts(entry)) = 2 /\ Present(FullNameParts(entry)[2])
    THEN FullNameParts(entry)[2]
    ELSE NomInconnu

\* C21: the names of a row login creates follow the chain: the explicit
\* attribute when it is there, else the part of the full name split at its
\* first space, else the placeholder; when the fetch fails or finds no entry
\* both are the placeholders; in every case both names are non-empty.
C21_NamesFollowTheChain ==
    (resp.route = "login" /\ resp.created # 0)
       => /\ Present(CreatedRow.nom) /\ Present(CreatedRow.prenom)
          /\ resp.info = "entry"
                => /\ CreatedRow.prenom = ChainPrenom(resp.entry)
                   /\ CreatedRow.nom = ChainNom(resp.entry)
          /\ resp.info \in {"empty", "error"}
                => /\ CreatedRow.prenom = PrenomInconnu
                   /\ CreatedRow.nom = NomInconnu

\* the case of C21: the entry has a given name, no family name and a full
\* name with spaces around it; the family name is the second part of it
C21_Witness ==
    /\ resp.route = "login" /\ resp.created # 0 /\ resp.info = "entry"
    /\ resp.entry.givenName = <<"Marie">> /\ resp.entry.sn = None
    /\ resp.entry.cn = <<" ", "Jean", " ", "Martin", " ">>
    /\ CreatedRow.prenom = <<"Marie">> /\ CreatedRow.nom = <<"Martin">>

(***************************************************************************)
(* C22: whose session login establishes                                    *)
(***************************************************************************)
\* the last attempt proved the secret through the directory: the bind with
\* the DN found for the submitted address accepted the submitted secret
ProvedByBind ==
    /\ resp.lookup = "found" /\ resp.bind = "ok"
    /\ resp.email \in DOMAIN Directory
    /\ resp.user_dn = Directory[resp.email].dn
    /\ resp.password = Directory[resp.email].password

\* the last attempt proved the secret locally: no DN came back and the
\* stored hash of the address's row matches the submitted secret
ProvedLocally ==
    /\ resp.user_dn = None /\ resp.bind = "none"
    /\ FindByEmail(resp.email) # NoRow
    /\ check_password_hash(FindByEmail(resp.email).password_hash,
                           resp.password)

\* C22: after a login attempt that reached the directory lookup, the
\* browser's session holds a user id only if the attempt ended on a role's
\* surface; the id is then that of the row of the submitted, normalised
\* address, and the secret was proven in this attempt, by the bind for the
\* DN found or, no DN found, by the stored hash.  After every other attempt
\* the session holds no user id.
C22_SessionOnlyForProvenSecret ==
    LoginAttempt
       => IF Resolved(resp)
          THEN /\ ProvedByBind \/ ProvedLocally
               /\ FindByEmail(resp.email) # NoRow
               /\ session[resp.client] =
                     [user_id |-> FindByEmail(resp.email).id]
          ELSE "user_id" \notin DOMAIN session[resp.client]

\* the case of C22: the lookup failed for an address the directory holds
\* with another secret; the local row's own secret was submitted and the
\* session is that row's
C22_Witness ==
    /\ LoginAttempt /\ resp.lookup = "error" /\ Resolved(resp)
    /\ resp.email \in DOMAIN Directory
    /\ resp.password # Directory[resp.email].password
    /\ ProvedLocally
    /\ session[resp.client] = [user_id |-> FindByEmail(resp.email).id]

(***************************************************************************)
(* C23: what login writes to the table                                     *)
(***************************************************************************)
\* C23: a step of login changes the table only when it answers an attempt
\* for which a DN was found, the bind succeeded and the SELECT found no row
\* for the address; it then appends one row, for that address.  Every other
\* step of login, the redirect of a logged-in browser included, leaves the
\* table and the id counter as they were.
C23_LoginWritesOnlyWhenProvisioning ==
    [][/\ (resp'.route = "login" /\ resp' # resp)
          => IF resp'.created # 0
             THEN /\ resp'.lookup = "found" /\ resp'.bind = "ok"
                  /\ resp'.user = NoRow
                  /\ RowsWith(resp'.email) = {}
                  /\ Len(users') = Len(users) + 1
                  /\ SubSeq(users', 1, Len(users)) = users
                  /\ users'[Len(users')].email = resp'.email
                  /\ users'[Len(users')].id = resp'.created
             ELSE users' = users /\ nextId' = nextId
       /\ \A c \in Clients :
             (pc[c] = "idle" /\ pc'[c] = "login_create")
                => users' = users /\ nextId' = nextId]_vars

\* the case of C23: a login created the second row of the table, beside a
\* row that was registered through the form
C23_Witness ==
    /\ resp.route = "login" /\ resp.created # 0
    /\ resp.user = NoRow /\ resp.bind = "ok"
    /\ Len(users) = 2 /\ users[2].id = resp.created
    /\ users[1].password_hash # generate_password_hash(RandomToken)

(***************************************************************************)
(* C24: who sees the protected pages                                       *)
(***************************************************************************)
\* the roles each protected page is for
AllowedRoles(route) ==
    CASE route = "admin_dashboard" -> {"admin"}
      [] route = "professeurs"     -> {"professeur", "admin"}
      [] route = "etudiants"       -> {"etudiant", "admin"}

\* the template of each protected page
TemplateOf(route) ==
    CASE route = "admin_dashboard" -> "admin_dashboard.html"
      [] route = "professeurs"     -> "professeurs.html"
      [] route = "etudiants"       -> "etudiants.html"

\* response r answers a request for a protected page
PageRequest(r) == r.route \in {"admin_dashboard", "professeurs", "etudiants"}

\* response r rendered a page's template
Rendered(r) == r.page \in {"admin_dashboard.html", "professeurs.html",
                           "etudiants.html"}

\* C24: a protected page is rendered only for a session whose row is in the
\* table when the page is asked for and holds a role the page is for: admin
\* for the dashboard, professeur or admin for /professeurs, etudiant or
\* admin for /etudiants.  Every other request for these pages is answered
\* by a redirect, and no request for a page changes the session or the table.
C24_PagesFollowRole ==
    [][(PageRequest(resp') /\ resp' # resp)
          => /\ LET c == resp'.client IN
                IF /\ "user_id" \in DOMAIN session[c]
                   /\ \E i \in 1..Len(users) :
                         /\ users[i].id = session[c].user_id
                         /\ users[i].user_type \in AllowedRoles(resp'.route)
                THEN resp'.page = TemplateOf(resp'.route)
                ELSE ~Rendered(resp') /\ resp'.page \in {"home", "login"}
             /\ UNCHANGED <<users, nextId, session>>]_vars

\* the case of C24: an admin's session was shown the students' page
C24_Witness ==
    /\ resp.route = "etudiants" /\ resp.page = "etudiants.html"
    /\ resp.user # NoRow /\ resp.user.user_type = "admin"

(***************************************************************************)
(* C25: where admin rows come from                                         *)
(***************************************************************************)
\* C25: starting from an empty table, registrations and logins leave every
\* admin row with the marks of a row login created after a bind: the hash
\* of the random token, an address of the administrative domain and an
\* entry in the directory.  A row that was registered holds the role that
\* was registered, etudiant or professeur, also under an address of the
\* administrative domain and after directory logins with it.
C25_AdminRowsComeFromTheDirectory ==
    \A i \in 1..Len(users) :
        IF i \in JitRows
        THEN /\ users[i].email \in DOMAIN Directory
             /\ users[i].user_type = DomainRole(users[i].email)
        ELSE users[i].user_type \in UserTypeChoices

\* the case of C25: a row was registered as professeur under an address of
\* the administrative domain, a directory login with that address has just
\* used it, and it is a professeur's row
C25_Witness ==
    /\ BoundExisting(resp) /\ Resolved(resp)
    /\ Domain(resp.email) = AdminDomain
    /\ FindByEmail(resp.email) \notin {users[i] : i \in JitRows}
    /\ FindByEmail(resp.email).user_type = "professeur"
    /\ resp.page = "professeurs"
    /\ \A i \in 1..Len(users) : users[i].user_type # "admin"

====
